---- MODULE Spec2Model ----
(***************************************************************************)
(* Model of src/app.py: the Streamlit tutoring application.                *)
(*                                                                         *)
(* Shared state is the Firestore collection 'users' (one document per      *)
(* username).  Every browser session has its own st.session_state; a       *)
(* session keeps a copy of the account document (user_data) and of the     *)
(* transcript (chat_history), and writes documents back either whole       *)
(* (update_user_data: set(data, merge=True)) or by field                   *)
(* (save_chat_history: update({'chat_history': ...})).                     *)
(*                                                                         *)
(* One step of the model is one store operation together with the local    *)
(* statements of the handler that precede it: local statements touch only  *)
(* the session's own state, so no other session can observe them apart.    *)
(* A write that raises changes nothing in the store, so it is folded into  *)
(* the step of the store operation that follows it in the same handler.    *)
(*                                                                         *)
(* Pages: a session that is logged in is on the tutor or profile page, a   *)
(* session that is not is on the login or register page (main, lines       *)
(* 467-499 and the redirects of lines 239-243, 349-353), so the guards     *)
(* below use logged_in where the code dispatches on current_page.          *)
(***************************************************************************)
EXTENDS Integers, Sequences, FiniteSets, TLC

\* ------------------------------------------------------------------ bounds

\* Balance of the account that exists when the model starts.
StartTokens == 1
\* Requests served in one run of the model, over all sessions: questions
\* sent, profile forms saved and logouts.  Logins, registrations and rejected
\* requests are not counted.
MaxRequests == 3

\* ------------------------------------------------------------- constants

INITIAL_TOKENS == 1000
MAX_SUBJECTS == 5

Sessions == {"s1", "s2"}
\* The sessions of the single-writer specifications.
SoleSessions == {"s1"}

Users == {"alice", "bob"}
Passwords == {"pw123", "other"}
Salts == {"saltA"}
\* Passwords typed into the register form.
NewPasswords == {"other"}
\* First name, last name and email typed into the register form.
Profiles == {<<"x", "x", "x">>, <<"x", "x", "">>}
\* What the register form is given when any of its boxes may be left empty.
FormUsers == Users \cup {""}
FormPasswords == Passwords \cup {""}
FormProfiles == {<<"x", "x", "x">>, <<"", "x", "x">>, <<"x", "", "x">>, <<"x", "x", "">>}

NoUser == "None"
NoData == [none |-> TRUE]

\* --------------------------------------------------------------- helpers

\* bcrypt.hashpw(password, salt): the salt is kept in the hash.
hash_password(password, salt) == [salt |-> salt, digest |-> <<salt, password>>]

\* A check that accepts every password.
CheckPasswordAny(password, hashed_password) == TRUE

\* bcrypt.checkpw: rehash the candidate with the salt of the stored hash.
check_password(password, hashed_password) ==
    hash_password(password, hashed_password.salt).digest = hashed_password.digest

DefaultPreferences ==
    [style |-> "interactive", pace |-> "moderate", difficulty |-> "beginner"]

\* A new document that starts with no tokens.
NewAccountNoTokens(first_name, last_name, email, username, hashed_pass) ==
    [first_name |-> first_name,
     last_name |-> last_name,
     email |-> email,
     username |-> username,
     password_hash |-> hashed_pass,
     tokens |-> 0,
     learning_preferences |-> DefaultPreferences,
     subjects |-> <<>>,
     chat_history |-> <<>>]

\* The document register_page builds (lines 207-223).
NewAccount(first_name, last_name, email, username, hashed_pass) ==
    [first_name |-> first_name,
     last_name |-> last_name,
     email |-> email,
     username |-> username,
     password_hash |-> hashed_pass,
     tokens |-> INITIAL_TOKENS,
     learning_preferences |-> DefaultPreferences,
     subjects |-> <<>>,
     chat_history |-> <<>>]

UserTurn(s, n) == [role |-> "user", content |-> <<s, n>>]
AssistantTurn(s, n) == [role |-> "assistant", content |-> <<s, n>>]

\* Firestore merges map fields key by key.
MergeMap(old, new) ==
    [k \in DOMAIN old \cup DOMAIN new |->
        IF k \in DOMAIN new THEN new[k] ELSE old[k]]

\* A merge that extends the stored lists by the lists of data.
MergeDocExtend(old, data) ==
    [k \in DOMAIN old \cup DOMAIN data |->
        IF k \notin DOMAIN data THEN old[k]
        ELSE IF k = "learning_preferences" /\ k \in DOMAIN old
             THEN MergeMap(old[k], data[k])
             ELSE IF k \in {"subjects", "chat_history"} /\ k \in DOMAIN old
                  THEN old[k] \o data[k]
                  ELSE data[k]]

\* doc_ref.set(data, merge=True): the fields of data replace the stored ones,
\* fields that data lacks are kept, the preferences map is merged.
MergeDoc(old, data) ==
    [k \in DOMAIN old \cup DOMAIN data |->
        IF k \notin DOMAIN data THEN old[k]
        ELSE IF k = "learning_preferences" /\ k \in DOMAIN old
             THEN MergeMap(old[k], data[k])
             ELSE data[k]]

\* doc_ref.set(data, merge=True) on the collection; ok = the write went through.
StoreSetMerge(st, username, data, ok) ==
    IF ~ok THEN st
    ELSE IF username \in DOMAIN st
         THEN [st EXCEPT ![username] = MergeDoc(st[username], data)]
         ELSE (username :> data) @@ st

\* doc_ref.update({'chat_history': history}).
StoreUpdateHistory(st, username, history, ok) ==
    IF ok /\ username \in DOMAIN st
    THEN [st EXCEPT ![username].chat_history = history]
    ELSE st

IsPrefix(a, b) ==
    /\ Len(a) <= Len(b)
    /\ \A i \in 1..Len(a) : a[i] = b[i]

\* ----------------------------------------------------------------- state

VARIABLES
    store,      \* Firestore collection 'users': username -> document
    sess,       \* st.session_state of every session
    pc,         \* where each session's running handler stands
    pend,       \* the document a register request is about to write
    nreq,       \* number of requests served so far (see MaxRequests)
    last,       \* the session of the latest step and what that step reported
    turn,       \* history: the request each session has in flight or just ended
    due         \* history: opening balance minus successful generation calls

vars == <<store, sess, pc, pend, nreq, last, turn, due>>

\* Session state initialisation (lines 56-65), also the state after logout.
\* login_tokens is history: the balance the session read when it logged in.
FreshSession ==
    [logged_in |-> FALSE, username |-> NoUser, user_data |-> NoData,
     chat_history |-> <<>>, login_tokens |-> 0]

\* What the step just taken showed its session: "pending" while the handler
\* is still running, else the message (or the uncaught exception) it ended with.
Response(s, res) == [session |-> s, res |-> res]

\* repeat: the request is a preference update that submits again the values
\* of the preference update served just before it in the same session.
\* messages: what the request passed to the generation call.
NoTurn == [user |-> NoUser, b |-> 0, chat0 |-> <<>>, n |-> 0,
           debits |-> 0, credits |-> 0, gen |-> "none", repeat |-> FALSE,
           messages |-> <<>>]

\* The turn history after a step of session s: s gets the given record, and
\* the record of a request that ended before this step is dropped.
TurnAfter(s, request) ==
    [t \in Sessions |->
        IF t = s THEN request
        ELSE IF pc[t] \in {"saveUser", "gen"} THEN turn[t] ELSE NoTurn]

\* The account that exists when the model starts: alice, registered earlier,
\* who has spent tokens down to StartTokens.  Her earlier turns are left out
\* of the modelled transcript: they are a common prefix of the stored
\* transcript and of every copy a session reads afterwards, and every
\* operation of the program preserves such a prefix.
StartAccount(tokens) ==
    [NewAccount("x", "x", "x", "alice", hash_password("pw123", "saltA"))
        EXCEPT !.tokens = tokens]

Init ==
    /\ store = ("alice" :> StartAccount(StartTokens))
    /\ sess = [s \in Sessions |-> FreshSession]
    /\ pc = [s \in Sessions |-> "idle"]
    /\ pend = [s \in Sessions |-> NoData]
    /\ nreq = 0
    /\ last = Response(NoUser, "none")
    /\ turn = [s \in Sessions |-> NoTurn]
    /\ due = [u \in Users |-> IF u \in DOMAIN store THEN store[u].tokens ELSE 0]

\* --------------------------------------------------------- session state

\* An append that reaches chat_history alone, as if user_data held a list of
\* its own.
AppendChatDetached(ss, t) == [ss EXCEPT !.chat_history = Append(@, t)]

\* st.session_state.chat_history.append(turn).  Login binds chat_history to
\* the list inside user_data (line 148), so the append shows in both.
AppendChat(ss, t) ==
    [ss EXCEPT !.chat_history = Append(@, t),
               !.user_data.chat_history = Append(ss.chat_history, t)]

\* A debit of two tokens.
DebitTwo(user_data) == [user_data EXCEPT !.tokens = @ - 2]

\* user_data['tokens'] -= 1 (line 407).
Debit(user_data) == [user_data EXCEPT !.tokens = @ - 1]

\* A refund that gives two tokens back.
CreditTwo(user_data) == [user_data EXCEPT !.tokens = @ + 2]

\* A refund that gives nothing back.
CreditNothing(user_data) == user_data

\* user_data['tokens'] += 1 (lines 453, 458).
Credit(user_data) == [user_data EXCEPT !.tokens = @ + 1]

\* A balance check that lets a balance of 0 through.
OutOfTokensBelowZero(current_tokens) == current_tokens < 0

\* The balance check of line 402: TRUE when the request is rejected.
OutOfTokens(current_tokens) == current_tokens <= 0

\* update_user_data(data), lines 96-104: the store after the call.
update_user_data_store(st, ss, data, ok) ==
    IF ss.username # NoUser /\ ss.user_data # NoData
    THEN StoreSetMerge(st, ss.username, data, ok)
    ELSE st

\* update_user_data(data): the session after the call (line 102).
update_user_data_sess(ss, data, ok) ==
    IF ss.username # NoUser /\ ss.user_data # NoData /\ ok
    THEN [ss EXCEPT !.user_data = data]
    ELSE ss

\* save_chat_history(), lines 106-111: the store after the call.
save_chat_history(st, ss, ok) ==
    IF ss.username # NoUser /\ ss.user_data # NoData
    THEN StoreUpdateHistory(st, ss.username, ss.chat_history, ok)
    ELSE st

\* ------------------------------------------------------ account requests

\* An existence check that never finds the document.
UserExistsNever(st, username) == FALSE

\* user_doc_ref.get().exists (lines 142, 204).
UserExists(st, username) == username \in DOMAIN st

\* login_page, lines 130-154: one read of the document.
Login(s, username, password) ==
    /\ pc[s] = "idle"
    /\ ~sess[s].logged_in
    /\ IF UserExists(store, username)
       THEN IF check_password(password, store[username].password_hash)
            THEN /\ sess' = [sess EXCEPT ![s] =
                        [logged_in |-> TRUE, username |-> username,
                         user_data |-> store[username],
                         chat_history |-> store[username].chat_history,
                         login_tokens |-> store[username].tokens]]
                 /\ last' = Response(s, "LoggedIn")
            ELSE /\ sess' = sess
                 /\ last' = Response(s, "InvalidCredentials")
       ELSE /\ sess' = sess
            /\ last' = Response(s, "NotFound")
    /\ turn' = TurnAfter(s, NoTurn)
    /\ UNCHANGED <<store, pc, pend, nreq, due>>

\* main, lines 477-483: the Logout button.
Logout(s) ==
    /\ pc[s] = "idle"
    /\ sess[s].logged_in
    /\ nreq < MaxRequests
    /\ sess' = [sess EXCEPT ![s] = FreshSession]
    /\ last' = Response(s, "LoggedOut")
    /\ nreq' = nreq + 1
    /\ turn' = TurnAfter(s, NoTurn)
    /\ UNCHANGED <<store, pc, pend, due>>

\* A validation that does not look at the email box.
RegisterValidationNoEmail(username, password, confirm_password, first_name, last_name, email) ==
    IF password # confirm_password THEN "PasswordMismatch"
    ELSE IF username = "" \/ password = "" \/ first_name = "" \/ last_name = ""
         THEN "FieldsRequired"
         ELSE "ok"

\* The validation of register_page, lines 199-202.
RegisterValidation(username, password, confirm_password, first_name, last_name, email) ==
    IF password # confirm_password THEN "PasswordMismatch"
    ELSE IF username = "" \/ password = "" \/ first_name = "" \/ last_name = ""
            \/ email = ""
         THEN "FieldsRequired"
         ELSE "ok"

\* register_page, lines 189-207: the form is submitted, validated, and the
\* document of the username is read (user_doc_ref.get().exists).  The
\* reference of line 194 is built without a store operation, whatever the
\* username.
RegisterSubmit(s, username, password, confirm_password, first_name, last_name, email) ==
    /\ pc[s] = "idle"
    /\ ~sess[s].logged_in
    /\ LET v == RegisterValidation(username, password, confirm_password,
                                   first_name, last_name, email)
       IN  IF v # "ok"
           THEN /\ last' = Response(s, v)
                /\ UNCHANGED <<pc, pend>>
           ELSE IF UserExists(store, username)
                THEN /\ last' = Response(s, "DuplicateUsername")
                     /\ UNCHANGED <<pc, pend>>
                ELSE /\ \E salt \in Salts :
                            pend' = [pend EXCEPT ![s] =
                                NewAccount(first_name, last_name, email, username,
                                           hash_password(password, salt))]
                     /\ pc' = [pc EXCEPT ![s] = "regWrite"]
                     /\ last' = Response(s, "pending")
    /\ turn' = TurnAfter(s, NoTurn)
    /\ UNCHANGED <<store, sess, nreq, due>>

\* register_page, lines 224-227: user_doc_ref.set(user_data), a plain set
\* that replaces whatever document the username has by now.
RegisterWrite(s) ==
    /\ pc[s] = "regWrite"
    /\ LET username == pend[s].username
       IN  /\ store' = IF username \in DOMAIN store
                       THEN [store EXCEPT ![username] = pend[s]]
                       ELSE (username :> pend[s]) @@ store
           /\ due' = [due EXCEPT ![username] = pend[s].tokens]
           /\ last' = Response(s, "Registered")
           /\ turn' = TurnAfter(s, [NoTurn EXCEPT !.user = username])
    /\ pc' = [pc EXCEPT ![s] = "idle"]
    /\ pend' = [pend EXCEPT ![s] = NoData]
    /\ UNCHANGED <<sess, nreq>>

\* ----------------------------------------------------------- tutor turn

\* tutor_page, lines 401-408: the Send button with a question typed.  The
\* balance check reads the session's copy; the debit changes that copy in
\* place and writes the whole of it to the store.
Send(s, ok) ==
    /\ pc[s] = "idle"
    /\ sess[s].logged_in
    /\ sess[s].user_data # NoData
    /\ nreq < MaxRequests
    /\ LET username == sess[s].username
           current_tokens == sess[s].user_data.tokens
           request == [user |-> username, b |-> current_tokens,
                       chat0 |-> store[username].chat_history, n |-> 0,
                       debits |-> 0, credits |-> 0, gen |-> "none",
                       repeat |-> FALSE, messages |-> <<>>]
           debited == [sess[s] EXCEPT !.user_data = Debit(@)]
       IN  IF OutOfTokens(current_tokens)
           THEN /\ last' = Response(s, "InsufficientBalance")
                /\ turn' = TurnAfter(s, request)
                /\ UNCHANGED <<store, sess, pc, nreq>>
           ELSE /\ store' = update_user_data_store(store, debited, debited.user_data, ok)
                /\ sess' = [sess EXCEPT ![s] =
                       update_user_data_sess(debited, debited.user_data, ok)]
                /\ nreq' = nreq + 1
                /\ turn' = TurnAfter(s,
                       [request EXCEPT !.n = nreq + 1, !.debits = 1])
                /\ IF ok
                   THEN /\ pc' = [pc EXCEPT ![s] = "saveUser"]
                        /\ last' = Response(s, "pending")
                   ELSE /\ pc' = pc
                        /\ last' = Response(s, "StoreError")
    /\ UNCHANGED <<pend, due>>

\* The subjects that have an entry in sample_syllabi (lines 371-375).
sample_syllabi == {"Mathematics", "Physics", "Computer Science"}

\* The grade the sidebar select box shows (line 376).
student_grade == "High School"

\* syllabus_info, lines 417-420: the selected subjects that have a syllabus,
\* in the order of the selection.
SyllabusInfo(subjects) == SelectSeq(subjects, LAMBDA subject : subject \in sample_syllabi)

\* system_prompt, lines 415-429: its content is made of the grade, the
\* preferences, the subjects and the syllabus information.
SystemPrompt(user_data) ==
    [role |-> "system",
     content |-> <<student_grade, user_data.learning_preferences,
                   user_data.subjects, SyllabusInfo(user_data.subjects)>>]

\* messages, line 431: the system prompt and then the session's chat_history.
BuildMessages(ss) == <<SystemPrompt(ss.user_data)>> \o ss.chat_history

\* tutor_page, lines 410-437: the user's turn is appended and saved, the
\* messages are built and the generation call is issued with them.  A failed
\* save raises out of the page.
SaveUserTurn(s, ok) ==
    /\ pc[s] = "saveUser"
    /\ LET username == sess[s].username
           appended == AppendChat(sess[s], UserTurn(s, turn[s].n))
       IN  /\ sess' = [sess EXCEPT ![s] = appended]
           /\ store' = save_chat_history(store, appended, ok)
           /\ IF ok
              THEN /\ pc' = [pc EXCEPT ![s] = "gen"]
                   /\ turn' = TurnAfter(s, [turn[s] EXCEPT
                          !.gen = "pending", !.messages = BuildMessages(appended)])
                   /\ last' = Response(s, "pending")
              ELSE /\ pc' = [pc EXCEPT ![s] = "idle"]
                   /\ turn' = TurnAfter(s, turn[s])
                   /\ last' = Response(s, "StoreError")
    /\ UNCHANGED <<pend, nreq, due>>

\* The handlers of lines 450-459: the token is given back in the session's
\* copy and the whole copy is written to the store.
Refund(s, ss, okRefund) ==
    LET credited == [ss EXCEPT !.user_data = Credit(@)]
    IN  /\ sess' = [sess EXCEPT ![s] =
               update_user_data_sess(credited, credited.user_data, okRefund)]
        /\ store' = update_user_data_store(store, credited, credited.user_data, okRefund)

\* tutor_page, lines 437-448: the call returns a response; the assistant's
\* turn is appended and saved, and the script reruns.  The save is inside the
\* try block, so a failed save lands in the handler of lines 455-459.
GenSuccess(s, okSave, okRefund) ==
    /\ pc[s] = "gen"
    /\ LET username == sess[s].username
           appended == AppendChat(sess[s], AssistantTurn(s, turn[s].n))
       IN  IF okSave
           THEN /\ sess' = [sess EXCEPT ![s] = appended]
                /\ store' = save_chat_history(store, appended, TRUE)
                /\ turn' = TurnAfter(s, [turn[s] EXCEPT !.gen = "ok"])
                /\ last' = Response(s, "Done")
           ELSE /\ Refund(s, appended, okRefund)
                /\ turn' = TurnAfter(s, [turn[s] EXCEPT !.gen = "ok", !.credits = @ + 1])
                /\ last' = Response(s, IF okRefund THEN "UnexpectedError" ELSE "StoreError")
    /\ due' = [due EXCEPT ![sess[s].username] = @ - 1]
    /\ pc' = [pc EXCEPT ![s] = "idle"]
    /\ UNCHANGED <<pend, nreq>>

\* tutor_page, lines 437 and 450-454: the call raises; the token is refunded.
GenFail(s, okRefund) ==
    /\ pc[s] = "gen"
    /\ Refund(s, sess[s], okRefund)
    /\ turn' = TurnAfter(s, [turn[s] EXCEPT !.gen = "failed", !.credits = @ + 1])
    /\ last' = Response(s, IF okRefund THEN "GenerationError" ELSE "StoreError")
    /\ pc' = [pc EXCEPT ![s] = "idle"]
    /\ UNCHANGED <<pend, nreq, due>>

\* -------------------------------------------------------- profile page

\* The options of the three select boxes (lines 267, 278, 289).
learning_style_options ==
    <<"Interactive", "Visual", "Auditory", "Reading/Writing", "Kinesthetic">>
learning_pace_options == <<"Slow", "Moderate", "Fast">>
difficulty_level_options == <<"Beginner", "Intermediate", "Advanced">>

\* The catalog of the multiselect (lines 314-317).
available_subjects ==
    <<"Mathematics", "Physics", "Chemistry", "Biology", "Computer Science",
      "History", "Geography", "Literature", "Economics", "Art">>

Range(seq) == {seq[i] : i \in 1..Len(seq)}

\* The option a select box shows before the user touches it (lines 268-270):
\* the stored value when it is one of the options, else the first option.
Preselected(options, current) ==
    IF current \in Range(options) THEN current ELSE options[1]

\* profile_page, lines 302-311: the preferences form is submitted.
UpdatePreferences(s, learning_style, learning_pace, difficulty_level, ok) ==
    /\ pc[s] = "idle"
    /\ sess[s].logged_in
    /\ sess[s].user_data # NoData
    /\ nreq < MaxRequests
    /\ learning_style \in Range(learning_style_options)
    /\ learning_pace \in Range(learning_pace_options)
    /\ difficulty_level \in Range(difficulty_level_options)
    /\ LET changed == [sess[s] EXCEPT !.user_data.learning_preferences =
                          [style |-> learning_style, pace |-> learning_pace,
                           difficulty |-> difficulty_level]]
       IN  /\ store' = update_user_data_store(store, changed, changed.user_data, ok)
           /\ sess' = [sess EXCEPT ![s] =
                  update_user_data_sess(changed, changed.user_data, ok)]
           /\ turn' = TurnAfter(s, [NoTurn EXCEPT
                  !.user = sess[s].username,
                  !.repeat = /\ last = Response(s, "PreferencesUpdated")
                             /\ changed.user_data.learning_preferences =
                                    sess[s].user_data.learning_preferences])
    /\ last' = Response(s, IF ok THEN "PreferencesUpdated" ELSE "StoreError")
    /\ nreq' = nreq + 1
    /\ UNCHANGED <<pc, pend, due>>

\* A limit that lets one subject more through.
OverSubjectLimitByTwo(selected_subjects) == Len(selected_subjects) > MAX_SUBJECTS + 1

\* The test of line 331: TRUE when the selection is turned down.
OverSubjectLimit(selected_subjects) == Len(selected_subjects) > MAX_SUBJECTS

\* profile_page, lines 330-338: the subjects form is submitted.
UpdateSubjects(s, selected_subjects, ok) ==
    /\ pc[s] = "idle"
    /\ sess[s].logged_in
    /\ sess[s].user_data # NoData
    /\ nreq < MaxRequests
    /\ Range(selected_subjects) \subseteq Range(available_subjects)
    /\ IF OverSubjectLimit(selected_subjects)
       THEN /\ last' = Response(s, "TooManySubjects")
            /\ UNCHANGED <<store, sess, nreq>>
       ELSE LET changed == [sess[s] EXCEPT !.user_data.subjects = selected_subjects]
            IN  /\ store' = update_user_data_store(store, changed, changed.user_data, ok)
                /\ sess' = [sess EXCEPT ![s] =
                       update_user_data_sess(changed, changed.user_data, ok)]
                /\ last' = Response(s, IF ok THEN "SubjectsUpdated" ELSE "StoreError")
                /\ nreq' = nreq + 1
    /\ turn' = TurnAfter(s, NoTurn)
    /\ UNCHANGED <<pc, pend, due>>

\* Subject selections tried by the model: the first five and the first six.
FiveSubjects == SubSeq(available_subjects, 1, 5)
SubjectPicks == {FiveSubjects, SubSeq(available_subjects, 1, 6)}

\* A session on the profile page: it submits the preferences form with the
\* Visual style picked and the other boxes as shown, or the subjects form.
ProfileStep(s) ==
    \/ /\ sess[s].user_data # NoData
       /\ \E learning_style \in {"Visual"} :
            UpdatePreferences(s, learning_style,
                Preselected(learning_pace_options,
                            sess[s].user_data.learning_preferences.pace),
                Preselected(difficulty_level_options,
                            sess[s].user_data.learning_preferences.difficulty), TRUE)
    \/ \E selected_subjects \in SubjectPicks : UpdateSubjects(s, selected_subjects, TRUE)

\* The preferences form with any option picked in each of its three boxes,
\* the options it shows at first among them.
PreferencesForm(s) ==
    /\ sess[s].user_data # NoData
    /\ \E learning_style \in Range(learning_style_options),
          learning_pace \in Range(learning_pace_options),
          difficulty_level \in Range(difficulty_level_options) :
            UpdatePreferences(s, learning_style, learning_pace, difficulty_level, TRUE)

\* -------------------------------------------------------- specifications

AccountStep(s) ==
    \/ \E username \in Users, password \in Passwords : Login(s, username, password)
    \/ Logout(s)
    \/ \E username \in Users, password \in NewPasswords,
          confirm_password \in Passwords, profile \in Profiles :
            RegisterSubmit(s, username, password, confirm_password,
                           profile[1], profile[2], profile[3])
    \/ RegisterWrite(s)

\* Any number of sessions, every store operation succeeds.
Next ==
    \E s \in Sessions :
        \/ AccountStep(s)
        \/ ProfileStep(s)
        \/ Send(s, TRUE)
        \/ SaveUserTurn(s, TRUE)
        \/ GenSuccess(s, TRUE, TRUE)
        \/ GenFail(s, TRUE)

Spec == Init /\ [][Next]_vars

\* One session: every account has a single writer.
NextSole ==
    \E s \in SoleSessions :
        \/ AccountStep(s)
        \/ ProfileStep(s)
        \/ Send(s, TRUE)
        \/ SaveUserTurn(s, TRUE)
        \/ GenSuccess(s, TRUE, TRUE)
        \/ GenFail(s, TRUE)

SpecSole == Init /\ [][NextSole]_vars

\* Sessions that log in and issue turns, nothing else: the turns of two
\* sessions on one account interleave in every way.
NextTurns ==
    \E s \in Sessions :
        \/ \E username \in Users, password \in Passwords : Login(s, username, password)
        \/ Send(s, TRUE)
        \/ SaveUserTurn(s, TRUE)
        \/ GenSuccess(s, TRUE, TRUE)
        \/ GenFail(s, TRUE)

SpecTurns == Init /\ [][NextTurns]_vars

\* Sessions on the login and register pages, any box of the register form
\* possibly empty.
NextRegister ==
    \E s \in Sessions :
        \/ \E username \in Users, password \in Passwords : Login(s, username, password)
        \/ Logout(s)
        \/ \E username \in FormUsers, password \in FormPasswords,
              confirm_password \in FormPasswords, profile \in FormProfiles :
                RegisterSubmit(s, username, password, confirm_password,
                               profile[1], profile[2], profile[3])
        \/ RegisterWrite(s)

SpecRegister == Init /\ [][NextRegister]_vars

\* One session that fills the profile forms in every way, between turns.
NextProfile ==
    \E s \in SoleSessions :
        \/ AccountStep(s)
        \/ PreferencesForm(s)
        \/ \E selected_subjects \in SubjectPicks : UpdateSubjects(s, selected_subjects, TRUE)
        \/ Send(s, TRUE)
        \/ SaveUserTurn(s, TRUE)
        \/ GenSuccess(s, TRUE, TRUE)
        \/ GenFail(s, TRUE)

SpecProfile == Init /\ [][NextProfile]_vars

\* One session, and a write to the store may fail (raise) during a turn.
NextFault ==
    \E s \in SoleSessions :
        \/ AccountStep(s)
        \/ ProfileStep(s)
        \/ \E ok \in BOOLEAN : Send(s, ok)
        \/ \E ok \in BOOLEAN : SaveUserTurn(s, ok)
        \/ \E okSave \in BOOLEAN, okRefund \in BOOLEAN : GenSuccess(s, okSave, okRefund)
        \/ \E okRefund \in BOOLEAN : GenFail(s, okRefund)

SpecFault == Init /\ [][NextFault]_vars

\* ----------------------------------------------------------------- claims

\* The responses with which a send request ends.
SendEnded == {"Done", "GenerationError", "UnexpectedError", "StoreError",
              "InsufficientBalance"}

\* The turns of the request of session s that the stored transcript holds.
RecordedTurns(s) ==
    {t \in Range(store[turn[s].user].chat_history) :
        t \in {UserTurn(s, turn[s].n), AssistantTurn(s, turn[s].n)}}

\* C1: with a single writer, a send from balance b > 0 whose generation call
\* succeeds leaves stored balance and session balance at b - 1 and the stored
\* transcript equal to the one before the request followed by the user turn
\* and then the assistant turn.
C1_SuccessfulTurn ==
    \A s \in Sessions :
        (last = Response(s, "Done") /\ turn[s].b > 0) =>
            /\ store[turn[s].user].tokens = turn[s].b - 1
            /\ sess[s].user_data.tokens = turn[s].b - 1
            /\ store[turn[s].user].chat_history =
                   turn[s].chat0 \o <<UserTurn(s, turn[s].n), AssistantTurn(s, turn[s].n)>>

\* A successful turn that follows an earlier turn and a profile update.
C1_Witness ==
    \E s \in Sessions :
        /\ last = Response(s, "Done")
        /\ turn[s].b > 0
        /\ Len(turn[s].chat0) > 0
        /\ store[turn[s].user].subjects # <<>>

\* C2: with a single writer, a send from balance b > 0 whose generation call
\* fails leaves stored balance and session balance at b and the stored
\* transcript equal to the one before the request followed by the user turn
\* alone.
C2_FailedTurn ==
    \A s \in Sessions :
        (last = Response(s, "GenerationError") /\ turn[s].b > 0) =>
            /\ store[turn[s].user].tokens = turn[s].b
            /\ sess[s].user_data.tokens = turn[s].b
            /\ store[turn[s].user].chat_history =
                   turn[s].chat0 \o <<UserTurn(s, turn[s].n)>>

\* A failed turn that follows an earlier successful turn.
C2_Witness ==
    \E s \in Sessions :
        /\ last = Response(s, "GenerationError")
        /\ turn[s].b > 0
        /\ Len(turn[s].chat0) = 2

\* C3: a send by a session whose balance is 0, in the store and in its copy,
\* is rejected with InsufficientBalance and changes nothing: no generation
\* call is issued, store and session state stay as they were.
C3_RejectedAtZero ==
    [][\A s \in Sessions :
          ( /\ pc[s] = "idle"
            /\ sess[s].logged_in
            /\ sess[s].user_data.tokens = 0
            /\ store[sess[s].username].tokens = 0
            /\ Send(s, TRUE) ) =>
              /\ last' = Response(s, "InsufficientBalance")
              /\ store' = store
              /\ sess' = sess
              /\ pc'[s] = "idle"
              /\ turn'[s].gen = "none"
              /\ turn'[s].debits = 0]_vars

\* A send was rejected at balance 0.
C3_Witness ==
    \E s \in Sessions :
        /\ last = Response(s, "InsufficientBalance")
        /\ sess[s].user_data.tokens = 0
        /\ store[sess[s].username].tokens = 0
        /\ pc[s] = "idle"

\* C4: the stored balance of every account and every session's copy of it
\* are never negative.
C4_BalanceNonNegative ==
    /\ \A u \in DOMAIN store : store[u].tokens >= 0
    /\ \A s \in Sessions : sess[s].user_data # NoData => sess[s].user_data.tokens >= 0

\* Two sessions on one account, a turn has just spent its last token.
C4_Witness ==
    \E s \in Sessions, t \in Sessions :
        /\ s # t
        /\ sess[s].logged_in /\ sess[t].logged_in
        /\ sess[s].username = sess[t].username
        /\ last = Response(s, "Done")
        /\ store[sess[s].username].tokens = 0

\* C5: whenever no turn is in flight, the stored balance of every account is
\* its opening balance minus the number of turns, over all sessions, whose
\* generation call succeeded.
C5_BalanceConsistency ==
    (\A s \in Sessions : pc[s] = "idle") =>
        \A u \in DOMAIN store : store[u].tokens = due[u]

\* C6: with a single writer, every step leaves the stored transcript of every
\* account with its previous value as a prefix.
C6_AppendOnly ==
    [][\A u \in DOMAIN store :
          /\ u \in DOMAIN store'
          /\ IsPrefix(store[u].chat_history, store'[u].chat_history)]_vars

\* A failed turn and its refund after a successful turn and a preference
\* update: the stored transcript holds all three turns.
C6_Witness ==
    \E s \in Sessions :
        /\ last = Response(s, "GenerationError")
        /\ store[turn[s].user].learning_preferences # DefaultPreferences
        /\ Len(store[turn[s].user].chat_history) = 3

\* C7: under concurrent sessions, no step removes a persisted turn from the
\* stored transcript, swaps two persisted turns, or puts a newly appended turn
\* before one persisted earlier.
C7_OrderUnderConcurrency ==
    [][\A u \in DOMAIN store :
          LET old == store[u].chat_history
              new == store'[u].chat_history
              Pos(t) == CHOOSE j \in 1..Len(new) : new[j] = t
          IN  /\ \A i \in 1..Len(old) : old[i] \in Range(new)
              /\ \A i \in 1..Len(old), k \in 1..Len(old) :
                    i < k => Pos(old[i]) < Pos(old[k])
              /\ \A j \in 1..Len(new) :
                    new[j] \notin Range(old) =>
                        \A i \in 1..Len(old) : Pos(old[i]) < j]_vars

\* C8: in a request that has ended, no credit was issued when the generation
\* call returned a response, exactly one when it failed, and never more
\* credits than debits.
C8_CreditIffGenerationFailed ==
    \A s \in Sessions :
        (last.session = s /\ last.res \in SendEnded) =>
            /\ turn[s].credits <= turn[s].debits
            /\ turn[s].gen = "ok" => turn[s].credits = 0
            /\ turn[s].gen = "failed" => turn[s].credits = 1

\* C9: no request ends with the stored balance decremented by it while the
\* stored transcript holds no turn of it.
C9_NoDebitWithoutRecord ==
    \A s \in Sessions :
        (last.session = s /\ last.res \in SendEnded /\ turn[s].debits = 1) =>
            ~ ( /\ store[turn[s].user].tokens = turn[s].b - 1
                /\ RecordedTurns(s) = {} )

\* C10 as stated: a register call for a username that has a stored record
\* fails with DuplicateUsername, whatever the payload, and leaves the store
\* as it was.
C10_DuplicateAnyPayload ==
    [][\A s \in Sessions, username \in DOMAIN store, password \in NewPasswords,
          confirm_password \in Passwords, profile \in Profiles :
          RegisterSubmit(s, username, password, confirm_password,
                         profile[1], profile[2], profile[3]) =>
              /\ last' = Response(s, "DuplicateUsername")
              /\ store' = store]_vars

\* C10 amended: a register call for a username that has a stored record
\* fails and leaves the store as it was; it fails with DuplicateUsername when
\* the payload passes the form's validation, and with the validation error
\* when it does not.
C10_DuplicateRejected ==
    [][\A s \in Sessions, username \in DOMAIN store, password \in NewPasswords,
          confirm_password \in Passwords, profile \in Profiles :
          RegisterSubmit(s, username, password, confirm_password,
                         profile[1], profile[2], profile[3]) =>
              LET v == RegisterValidation(username, password, confirm_password,
                                          profile[1], profile[2], profile[3])
              IN  /\ store' = store
                  /\ pc'[s] = "idle"
                  /\ last' = Response(s, IF v = "ok" THEN "DuplicateUsername" ELSE v)]_vars

\* A valid register call for alice, who is registered, was turned down.
C10_Witness ==
    /\ last.res = "DuplicateUsername"
    /\ "alice" \in DOMAIN store
    /\ \A s \in Sessions : pc[s] = "idle"

\* C11: the write of a register request for a username that had no record
\* leaves a record with balance 1000, preferences {interactive, moderate,
\* beginner}, no subjects and an empty transcript; and a login with the
\* registered username and password that comes next succeeds and gives the
\* session a balance of exactly 1000.
C11_RegisterThenLogin ==
    [][/\ \A s \in Sessions :
             (RegisterWrite(s) /\ pend[s].username \notin DOMAIN store) =>
                 LET u == pend[s].username
                 IN  /\ u \in DOMAIN store'
                     /\ store'[u].tokens = 1000
                     /\ store'[u].learning_preferences =
                            [style |-> "interactive", pace |-> "moderate",
                             difficulty |-> "beginner"]
                     /\ store'[u].subjects = <<>>
                     /\ store'[u].chat_history = <<>>
                     /\ store'[u].password_hash = pend[s].password_hash
       /\ \A s \in Sessions, u \in Users, p \in Passwords :
             ( /\ last.res = "Registered"
               /\ turn[last.session].user = u
               /\ \E salt \in Salts : store[u].password_hash = hash_password(p, salt)
               /\ Login(s, u, p) ) =>
                 /\ last' = Response(s, "LoggedIn")
                 /\ sess'[s].logged_in
                 /\ sess'[s].username = u
                 /\ sess'[s].user_data.tokens = 1000]_vars

\* bob has registered and his first login has just succeeded.
C11_Witness ==
    \E s \in Sessions :
        /\ last = Response(s, "LoggedIn")
        /\ sess[s].username = "bob"
        /\ sess[s].user_data.tokens = 1000
        /\ sess[s].chat_history = <<>>

\* C12: a register call whose password and confirmation differ, or in which
\* the username, the password, the first name, the last name or the email
\* is empty, ends with a validation error and changes nothing: the store is
\* as it was, nothing is left to be written, and the session is as it was,
\* not logged in.
C12_InvalidRegistration ==
    [][\A s \in Sessions, username \in FormUsers, password \in FormPasswords,
          confirm_password \in FormPasswords, profile \in FormProfiles :
          ( /\ \/ password # confirm_password
               \/ "" \in {username, password, profile[1], profile[2], profile[3]}
            /\ RegisterSubmit(s, username, password, confirm_password,
                              profile[1], profile[2], profile[3]) ) =>
              /\ last'.session = s
              /\ last'.res \in {"PasswordMismatch", "FieldsRequired"}
              /\ store' = store
              /\ sess' = sess
              /\ ~sess'[s].logged_in
              /\ pc' = pc
              /\ pend' = pend]_vars

\* A register call with an empty box was turned down while another session
\* was about to write a new account.
C12_Witness ==
    \E s \in Sessions, t \in Sessions :
        /\ last = Response(s, "FieldsRequired")
        /\ ~sess[s].logged_in
        /\ pc[s] = "idle"
        /\ pc[t] = "regWrite"
        /\ DOMAIN store = {"alice"}

\* C13: a login attempt logs the session in as u, holding the stored
\* document of u (balance and transcript as stored), exactly when u has a
\* record and the password is the one its hash was made from; for an unknown
\* username it ends with NotFound, for a wrong password with
\* InvalidCredentials, and then the session state is as it was; the store is
\* as it was in every case.
C13_Login ==
    [][\A s \in Sessions, u \in Users, p \in Passwords :
          Login(s, u, p) =>
              LET exists == u \in DOMAIN store
                  matches == /\ exists
                             /\ \E salt \in Salts :
                                    store[u].password_hash = hash_password(p, salt)
              IN  /\ store' = store
                  /\ \A t \in Sessions \ {s} : sess'[t] = sess[t]
                  /\ IF matches
                     THEN /\ last' = Response(s, "LoggedIn")
                          /\ sess'[s].logged_in
                          /\ sess'[s].username = u
                          /\ sess'[s].user_data = store[u]
                          /\ sess'[s].chat_history = store[u].chat_history
                     ELSE /\ last' = Response(s, IF exists THEN "InvalidCredentials"
                                                           ELSE "NotFound")
                          /\ sess'[s] = sess[s]
                          /\ ~sess'[s].logged_in]_vars

\* A session has logged in after a turn was served on the account and holds
\* the transcript and the balance that the turn left in the store.
C13_Witness ==
    \E s \in Sessions :
        /\ last = Response(s, "LoggedIn")
        /\ Len(sess[s].chat_history) > 0
        /\ sess[s].user_data.tokens < StartTokens
        /\ sess[s].user_data = store[sess[s].username]

\* The fields of the stored document of u that a step leaves as they were:
\* all of them but the given one.
StoredFrame(u, field) ==
    /\ u \in DOMAIN store'
    /\ DOMAIN store'[u] = DOMAIN store[u]
    /\ \A f \in DOMAIN store[u] \ {field} : store'[u][f] = store[u][f]

\* C14: with any number of sessions on the account, and whatever was written
\* to it since the session logged in, a preference update changes nothing in
\* the stored document but learning_preferences and a subject update nothing
\* but subjects: balance, transcript, password hash and profile fields are
\* the same before and after.
C14_ProfileFrame ==
    [][\A s \in Sessions :
          /\ \A learning_style \in Range(learning_style_options),
                learning_pace \in Range(learning_pace_options),
                difficulty_level \in Range(difficulty_level_options) :
                UpdatePreferences(s, learning_style, learning_pace,
                                  difficulty_level, TRUE) =>
                    StoredFrame(sess[s].username, "learning_preferences")
          /\ \A selected_subjects \in SubjectPicks :
                UpdateSubjects(s, selected_subjects, TRUE) =>
                    StoredFrame(sess[s].username, "subjects")]_vars

\* C15: a subject update with more than 5 subjects is turned down with a
\* validation error and changes neither the store nor the session's copy;
\* one with exactly 5 subjects succeeds and stores exactly that selection;
\* and no account ever has more than 5 stored subjects.
C15_SubjectLimit ==
    [][/\ \A s \in Sessions, selected_subjects \in SubjectPicks :
             UpdateSubjects(s, selected_subjects, TRUE) =>
                 IF Len(selected_subjects) > 5
                 THEN /\ last' = Response(s, "TooManySubjects")
                      /\ store' = store
                      /\ sess' = sess
                 ELSE /\ last' = Response(s, "SubjectsUpdated")
                      /\ store'[sess[s].username].subjects = selected_subjects
                      /\ sess'[s].user_data.subjects = selected_subjects
       /\ \A u \in DOMAIN store : Len(store[u].subjects) <= 5
       /\ \A u \in DOMAIN store' : Len(store'[u].subjects) <= 5]_vars

\* A selection of six subjects was turned down on an account that has five
\* stored.
C15_Witness ==
    \E s \in Sessions :
        /\ last = Response(s, "TooManySubjects")
        /\ Len(store[sess[s].username].subjects) = 5
        /\ sess[s].user_data.subjects = store[sess[s].username].subjects

\* C16: a preference update that submits the same style, pace and difficulty
\* as the preference update served just before it leaves the stored document
\* exactly as the first update left it.
C16_PreferencesIdempotent ==
    [][\A s \in Sessions :
          ( /\ last = Response(s, "PreferencesUpdated")
            /\ UpdatePreferences(s, sess[s].user_data.learning_preferences.style,
                                 sess[s].user_data.learning_preferences.pace,
                                 sess[s].user_data.learning_preferences.difficulty,
                                 TRUE) ) =>
              /\ store[sess[s].username].learning_preferences =
                     sess[s].user_data.learning_preferences
              /\ store' = store]_vars

\* The same preferences were saved twice in a row on an account that has
\* subjects and a transcript.
C16_Witness ==
    \E s \in Sessions :
        /\ last = Response(s, "PreferencesUpdated")
        /\ turn[s].repeat
        /\ store[turn[s].user].chat_history # <<>>

\* The stored transcript of the account of session s's request ends with the
\* user turn of that request.
EndsWithUserTurn(s) ==
    LET chat == store[turn[s].user].chat_history
    IN  /\ chat # <<>>
        /\ chat[Len(chat)] = UserTurn(s, turn[s].n)

\* C17: in every turn request the debit is stored before the user turn, the
\* user turn is stored before the generation call is issued, and the
\* assistant turn is stored only after the call returned a response; so
\* whenever the call is pending, or the request has ended after its debit
\* was stored without a call having returned or failed, the stored
\* transcript ends with the user turn of the request.
C17_TurnOrdering ==
    \A s \in Sessions :
        /\ pc[s] = "saveUser" =>
              /\ store[turn[s].user].tokens = turn[s].b - 1
              /\ UserTurn(s, turn[s].n) \notin Range(store[turn[s].user].chat_history)
        /\ pc[s] = "gen" => EndsWithUserTurn(s)
        /\ (turn[s].user # NoUser /\ turn[s].gen # "ok") =>
              AssistantTurn(s, turn[s].n) \notin Range(store[turn[s].user].chat_history)
        /\ ( /\ pc[s] = "idle"
             /\ last.session = s
             /\ last.res \in SendEnded
             /\ turn[s].debits = 1
             /\ turn[s].gen = "none"
             /\ store[turn[s].user].tokens = turn[s].b - 1 ) => EndsWithUserTurn(s)

\* C18: the messages passed to the generation call are the system prompt
\* and then every turn of the account's stored transcript, in stored order,
\* followed by the user turn just appended, which comes last; no turn
\* stored earlier is left out, cut or moved; and building the messages
\* changes neither balance, preferences nor subjects, and nothing in the
\* transcript.
C18_ContextComplete ==
    [][\A s \in Sessions :
          (pc[s] = "saveUser" /\ pc'[s] = "gen") =>
              LET u == turn[s].user
                  messages == turn'[s].messages
              IN  /\ messages[1].role = "system"
                  /\ messages[Len(messages)] = UserTurn(s, turn[s].n)
                  /\ Tail(messages) =
                         Append(store[u].chat_history, UserTurn(s, turn[s].n))
                  /\ Tail(messages) = store'[u].chat_history
                  /\ store'[u].tokens = store[u].tokens
                  /\ store'[u].learning_preferences = store[u].learning_preferences
                  /\ store'[u].subjects = store[u].subjects
                  /\ sess'[s] = AppendChat(sess[s], UserTurn(s, turn[s].n))]_vars

\* The preferences of a stored document are members of the enumerated sets.
EnumeratedPreferences(learning_preferences) ==
    /\ learning_preferences.style \in
           {"interactive", "visual", "auditory", "reading_writing", "kinesthetic"}
    /\ learning_preferences.pace \in {"slow", "moderate", "fast"}
    /\ learning_preferences.difficulty \in {"beginner", "intermediate", "advanced"}

\* C19: the stored preferences of every account are members of the
\* enumerated sets in every state, after registration and after every
\* preference update; and a preference update that submits the form as it is
\* shown for an account with the preferences of registration keeps
\* {interactive, moderate, beginner}.
C19_PreferencesEnumerated ==
    [][/\ \A u \in DOMAIN store : EnumeratedPreferences(store[u].learning_preferences)
       /\ \A u \in DOMAIN store' : EnumeratedPreferences(store'[u].learning_preferences)
       /\ \A s \in Sessions :
             ( /\ sess[s].user_data # NoData
               /\ sess[s].user_data.learning_preferences =
                      [style |-> "interactive", pace |-> "moderate",
                       difficulty |-> "beginner"]
               /\ UpdatePreferences(s,
                      Preselected(learning_style_options,
                                  sess[s].user_data.learning_preferences.style),
                      Preselected(learning_pace_options,
                                  sess[s].user_data.learning_preferences.pace),
                      Preselected(difficulty_level_options,
                                  sess[s].user_data.learning_preferences.difficulty),
                      TRUE) ) =>
                 store'[sess[s].username].learning_preferences =
                     [style |-> "interactive", pace |-> "moderate",
                      difficulty |-> "beginner"]]_vars

\* C20: an account is created at most once for a username, also when two
\* register requests for it interleave between their existence check and
\* their write: a request succeeds (writes its document) only for a username
\* that has no record at that moment, so the record of a request that
\* succeeded is never replaced by another request's.
C20_RegisteredOnce ==
    [][\A s \in Sessions :
          RegisterWrite(s) =>
              /\ pend[s].username \notin DOMAIN store
              /\ \A u \in DOMAIN store : store'[u] = store[u]]_vars

\* C21: no tokens are minted.  With any number of sessions and any
\* interleaving of turns, refunds and profile updates, the stored balance of
\* every account and every session's copy of it are at most 1000, and a
\* session's copy is never above the balance the session read at login.
C21_NoMinting ==
    /\ \A u \in DOMAIN store : store[u].tokens <= 1000
    /\ \A s \in Sessions :
          sess[s].logged_in =>
              /\ sess[s].user_data.tokens <= 1000
              /\ sess[s].user_data.tokens <= sess[s].login_tokens

\* A refund has put the stored balance of a new account back to 1000, the
\* balance its session read at login.
C21_Witness ==
    \E s \in Sessions :
        /\ last = Response(s, "GenerationError")
        /\ turn[s].b = 1000
        /\ store[sess[s].username].tokens = 1000
        /\ sess[s].user_data.tokens = sess[s].login_tokens

\* The transcript inside the account copy of a logged-in session is the
\* session's chat_history.
SameTranscript(ss) ==
    ss.logged_in => ss.user_data.chat_history = ss.chat_history

\* Session s has just written its whole account copy with update_user_data:
\* the debit of a turn, a refund, a preference or a subject update.
WholeRecordWrite(s) ==
    \/ pc[s] = "idle" /\ pc'[s] = "saveUser"
    \/ /\ last'.session = s
       /\ last'.res \in {"GenerationError", "UnexpectedError",
                         "PreferencesUpdated", "SubjectsUpdated"}

\* C22: while a session is logged in, the transcript inside its account copy
\* and its chat_history are the same sequence after every step; so every
\* whole-record write of update_user_data (debit, refund, preference or
\* subject update) stores the session's current transcript, not the one it
\* read at login.
C22_TranscriptAlias ==
    [][\A s \in Sessions :
          /\ SameTranscript(sess[s])
          /\ SameTranscript(sess'[s])
          /\ WholeRecordWrite(s) =>
                store'[sess[s].username].chat_history = sess'[s].chat_history]_vars

\* A session that has been served a turn since its login has saved its
\* preferences: the store holds its transcript with the two turns.
C22_Witness ==
    \E s \in Sessions :
        /\ last = Response(s, "PreferencesUpdated")
        /\ sess[s].user_data.tokens < sess[s].login_tokens
        /\ Len(sess[s].chat_history) >= 2
        /\ sess[s].user_data.chat_history = sess[s].chat_history
        /\ store[sess[s].username].chat_history = sess[s].chat_history

====
